---- MODULE Spec2Model ----
(***************************************************************************)
(* Longitudinal questionnaire simulator and scorer.                        *)
(*   longetude.py        evolve_answers / main  (answer evolution engine)  *)
(*   result_analysis.py  compute_scores / is_flag_* (scoring and flags)    *)
(* A generator call (random(), choice, choices, randint) consumes one raw  *)
(* draw u, the percentile of the underlying uniform variate (p = u/100).   *)
(***************************************************************************)
EXTENDS Integers, Sequences, FiniteSets, TLC

VARIABLES
    catalog,   \* the slice of NORM.items() the modelled calls iterate over
    run,       \* a call of evolve_answers
    twin,      \* a second call of evolve_answers, on the same arguments
    ambient,   \* what each of the two calls finds in the process around it
    jumps,     \* at-target jumps (line 77) taken so far by run
    job,       \* longetude.py main: rows read, baselines kept, rows written
    rec,       \* result_analysis.py main: the record being scored and flagged
    agg,       \* result_analysis.py mean_std: the group being reduced
    cohort,    \* simulating_responses.py main: two runs of the cohort generator
    mem        \* the dict objects of the call run, and the names bound to them

vars == <<catalog, run, twin, ambient, jumps, job, rec, agg, cohort, mem>>

(***************************************************************************)
(* Bounds of the model.                                                    *)
(***************************************************************************)
\* evolve_answers is called with attempts_total in 1..MaxAttempts
MaxAttempts == 3
\* baseline values range over (1 - Over)..(5 + Over): Over units outside [1,5]
Over == 1
\* main reads at most MaxRows input rows
MaxRows == 3
\* a scored answer set holds at most MaxAnswers entries
MaxAnswers == 3
\* seeds SEED..SEED + MaxSeedOffset
MaxSeedOffset == 3
\* the step count of the convergence runs
ConvergeSteps == 20
\* at-target jumps a convergence run may take
MaxJumps == 1
\* a group reduced by mean_std holds at most MaxValues values
MaxValues == 3
\* a run of the cohort generator is followed for MaxRuns records
MaxRuns == 2

(***************************************************************************)
(* longetude.py: the catalog                                               *)
(***************************************************************************)
QUESTIONS ==
    << <<"q1", 2>>, <<"q2", 1>>, <<"q3", 5>>, <<"q4", 1>>, <<"q5", 5>>, <<"q6", 2>>,
       <<"q7", 2>>, <<"q8", 1>>, <<"q9", 2>>, <<"q10", 4>>, <<"q11", 4>>, <<"q12", 1>>,
       <<"q13", 1>>, <<"q14", 5>>, <<"q15", 1>>, <<"q16", 1>>, <<"q17", 1>>, <<"q18", 3>>,
       <<"q19", 2>>, <<"q20", 1>>, <<"q21", 1>>, <<"q22", 1>>, <<"q23", 1>>, <<"q24", 2>> >>

NORM == [qid \in {QUESTIONS[i][1] : i \in 1..Len(QUESTIONS)} |->
            QUESTIONS[CHOOSE i \in 1..Len(QUESTIONS) : QUESTIONS[i][1] = qid][2]]

TOTAL_ATTEMPTS_PER_ID == 5

SEED == 12345

PROFILES == {"Healthy-Truthful", "Healthy-Lying", "Infected-Truthful", "Infected-Lying"}

\* the slices of NORM.items() (in catalog order) a modelled run iterates over
Slice(from, to) == [i \in 1..(to - from + 1) |-> QUESTIONS[from + i - 1][1]]

Windows == {Slice(2, 3), Slice(10, 10), Slice(18, 18)}

(***************************************************************************)
(* dict helpers                                                            *)
(***************************************************************************)
EmptyDict == [x \in {} |-> 0]

Get(d, key, default) == IF key \in DOMAIN d THEN d[key] ELSE default

Put(d, key, val) == [x \in (DOMAIN d) \cup {key} |-> IF x = key THEN val ELSE d[x]]

(***************************************************************************)
(* random.Random: the generator handle.  seed = NoSeed is a generator of   *)
(* unknown seed, whose every draw may be any value; a seeded generator     *)
(* yields the fixed stream of its seed.                                    *)
(***************************************************************************)
NoSeed == -1

\* the raw draws: midpoints of the twenty 5%-bins (every threshold of the code
\* is a multiple of 0.05)
U == {5 * i + 2 : i \in 0..19}

RECURSIVE RngState(_, _)
RngState(seed, pos) ==
    IF pos = 0 THEN seed % 400 ELSE (21 * RngState(seed, pos - 1) + 7) % 400

\* the pos-th draw of the stream of seed
Stream(seed, pos) == 5 * (RngState(seed, pos) \div 20) + 2

\* the next raw draws the handle can deliver to a call that consumes
\* Used(d) of them (a draw that is not consumed is not enumerated)
Draws(rng, Used(_)) ==
    IF rng.seed = NoSeed
    THEN UNION {{<<d1, d2>> : d2 \in IF Used(<<d1, 2>>) >= 2 THEN U ELSE {2}} :
                d1 \in IF Used(<<2, 2>>) >= 1 THEN U ELSE {2}}
    ELSE {<<Stream(rng.seed, rng.pos + 1), Stream(rng.seed, rng.pos + 2)>>}

\* the handle after n draws (the position in an unknown stream is not tracked)
Consume(rng, n) == IF rng.seed = NoSeed THEN rng ELSE [rng EXCEPT !.pos = @ + n]

\* rng.random() < t/100
RandomBelow(u, t) == u < t

\* rng.choice(seq)
Choice(seq, u) == seq[1 + (u * Len(seq)) \div 100]

\* rng.randint(a, b)
Randint(a, b, u) == a + (u * (b - a + 1)) \div 100

RECURSIVE SumTo(_, _)
SumTo(w, i) == IF i = 0 THEN 0 ELSE w[i] + SumTo(w, i - 1)

\* rng.choices(population, weights, k=1)[0]: bisect of random() * total in the
\* cumulative weights
Choices(population, weights, u) ==
    LET n == Len(population)
        total == SumTo(weights, n)
        idx == Cardinality({i \in 1..n : SumTo(weights, i) * 100 <= u * total})
    IN  population[IF idx + 1 > n THEN n ELSE idx + 1]

(***************************************************************************)
(* longetude.py: transition rules.  Each returns [v |-> value, n |-> draws *)
(* consumed], d being the next raw draws of the handle.                    *)
(***************************************************************************)
\* as clamp_1_5, the upper bound forgotten
clamp_1_5_open(x) == IF x < 1 THEN 1 ELSE x

clamp_1_5(x) == IF x < 1 THEN 1 ELSE IF x > 5 THEN 5 ELSE x

\* as extreme_target_for_norm, the two extremes exchanged
extreme_target_same_side(norm, d) ==
    IF norm >= 4 THEN [v |-> 5, n |-> 0]
    ELSE IF norm <= 2 THEN [v |-> 1, n |-> 0]
    ELSE [v |-> Choice(<<1, 5>>, d[1]), n |-> 1]

extreme_target_for_norm(norm, d) ==
    IF norm >= 4 THEN [v |-> 1, n |-> 0]
    ELSE IF norm <= 2 THEN [v |-> 5, n |-> 0]
    ELSE [v |-> Choice(<<1, 5>>, d[1]), n |-> 1]

\* as healthy_truthful_next, the pull applied also to a candidate at the norm
healthy_truthful_next_pull_always(prev, norm, d) ==
    LET delta == Choices(<<-1, 0, 1>>, <<10, 80, 10>>, d[1])
        candidate == clamp_1_5(prev + delta)
        pull == RandomBelow(d[2], 15)
        pulled == IF pull THEN candidate + (IF candidate > norm THEN -1 ELSE 1)
                  ELSE candidate
    IN  [v |-> clamp_1_5(pulled), n |-> 2]

healthy_truthful_next(prev, norm, d) ==
    LET delta == Choices(<<-1, 0, 1>>, <<10, 80, 10>>, d[1])
        candidate == clamp_1_5(prev + delta)
        pull == candidate # norm /\ RandomBelow(d[2], 15)
        pulled == IF pull THEN candidate + (IF candidate > norm THEN -1 ELSE 1)
                  ELSE candidate
    IN  [v |-> clamp_1_5(pulled), n |-> IF candidate # norm THEN 2 ELSE 1]

healthy_lying_next(prev, d) ==
    IF RandomBelow(d[1], 60)
    THEN [v |-> clamp_1_5(prev + Choices(<<-2, -1, 0, 1, 2>>, <<15, 20, 30, 20, 15>>, d[2])),
          n |-> 2]
    ELSE [v |-> Randint(1, 5, d[2]), n |-> 2]

\* as infected_truthful_next, the at-target jump two units long
infected_truthful_next_jump2(prev, target, d) ==
    IF prev = target
    THEN IF RandomBelow(d[1], 5)
         THEN [v |-> clamp_1_5(prev + 2 * Choice(<<-1, 1>>, d[2])), n |-> 2]
         ELSE [v |-> prev, n |-> 1]
    ELSE LET step == IF prev > target THEN -1 ELSE 1
             p == d[1]
             candidate == IF p < 10 THEN prev
                          ELSE IF p > 95 THEN prev + 2 * step
                          ELSE prev + step
         IN  [v |-> clamp_1_5(candidate), n |-> 1]

\* as infected_truthful_next, the sign of the step inverted
infected_truthful_next_away(prev, target, d) ==
    IF prev = target
    THEN IF RandomBelow(d[1], 5)
         THEN [v |-> clamp_1_5(prev + Choice(<<-1, 1>>, d[2])), n |-> 2]
         ELSE [v |-> prev, n |-> 1]
    ELSE LET step == IF prev > target THEN 1 ELSE -1
             p == d[1]
             candidate == IF p < 10 THEN prev
                          ELSE IF p > 95 THEN prev + 2 * step
                          ELSE prev + step
         IN  [v |-> clamp_1_5(candidate), n |-> 1]

infected_truthful_next(prev, target, d) ==
    IF prev = target
    THEN IF RandomBelow(d[1], 5)
         THEN [v |-> clamp_1_5(prev + Choice(<<-1, 1>>, d[2])), n |-> 2]
         ELSE [v |-> prev, n |-> 1]
    ELSE LET step == IF prev > target THEN -1 ELSE 1
             p == d[1]
             candidate == IF p < 10 THEN prev
                          ELSE IF p > 95 THEN prev + 2 * step
                          ELSE prev + step
         IN  [v |-> clamp_1_5(candidate), n |-> 1]

infected_lying_next(prev, d) ==
    IF RandomBelow(d[1], 70)
    THEN [v |-> Randint(1, 5, d[2]), n |-> 2]
    ELSE [v |-> Choices(<<1, 2, 3, 4, 5>>, <<35, 10, 10, 10, 35>>, d[2]), n |-> 2]

(***************************************************************************)
(* longetude.py: evolve_answers, one call as a record                      *)
(*   pc: "start" -> ("targets" ->) "outer" <-> "inner" ... -> "done"       *)
(***************************************************************************)
NewRun(profile, baseline_answers, attempts_total, rng) ==
    [profile |-> profile, baseline_answers |-> baseline_answers,
     attempts_total |-> attempts_total, rng |-> rng,
     all_attempts |-> <<>>, infected_targets |-> EmptyDict,
     nxt |-> EmptyDict, qi |-> 0, k |-> 0, pc |-> "start"]

\* lines 105-108: the copy of the baseline, the empty target table
Start(r) ==
    [r EXCEPT !.all_attempts = <<r.baseline_answers>>,
              !.infected_targets = EmptyDict,
              !.qi = 1, !.k = 2,
              !.pc = IF r.profile = "Infected-Truthful" THEN "targets" ELSE "outer"]

\* lines 109-110: one iteration of the target loop
ChooseTarget(r, d) ==
    LET qid == catalog[r.qi]
        t == extreme_target_for_norm(NORM[qid], d)
    IN  [r EXCEPT !.infected_targets = Put(@, qid, t.v),
                  !.rng = Consume(@, t.n),
                  !.qi = IF r.qi = Len(catalog) THEN 1 ELSE @ + 1,
                  !.pc = IF r.qi = Len(catalog) THEN "outer" ELSE "targets"]

\* lines 112-114 and 132: the head of the outer loop, or the return
OuterHead(r) ==
    IF r.k <= r.attempts_total
    THEN [r EXCEPT !.nxt = EmptyDict, !.qi = 1, !.pc = "inner"]
    ELSE [r EXCEPT !.pc = "done"]

\* as PrevAttempt, every step computed from the baseline
PrevAttemptFirst(r) == r.all_attempts[1]

\* line 113: prev = all_attempts[-1]
PrevAttempt(r) == r.all_attempts[Len(r.all_attempts)]

\* as PrevVal, the middle of the scale standing in for a missing answer
PrevValMid(prev, qid) == Get(prev, qid, 3)

\* line 117: prev_val = int(prev.get(qid, norm))
PrevVal(prev, qid) == Get(prev, qid, NORM[qid])

\* as Rule, the fallback restarting from the norm
RuleFallbackNorm(profile, prev_val, norm, targets, qid, d) ==
    IF profile = "Healthy-Truthful" THEN healthy_truthful_next(prev_val, norm, d)
    ELSE IF profile = "Healthy-Lying" THEN healthy_lying_next(prev_val, d)
    ELSE IF profile = "Infected-Truthful"
         THEN infected_truthful_next(prev_val, targets[qid], d)
    ELSE IF profile = "Infected-Lying" THEN infected_lying_next(prev_val, d)
    ELSE [v |-> norm, n |-> 0]

\* lines 119-128: the rule the profile label selects
Rule(profile, prev_val, norm, targets, qid, d) ==
    IF profile = "Healthy-Truthful" THEN healthy_truthful_next(prev_val, norm, d)
    ELSE IF profile = "Healthy-Lying" THEN healthy_lying_next(prev_val, d)
    ELSE IF profile = "Infected-Truthful"
         THEN infected_truthful_next(prev_val, targets[qid], d)
    ELSE IF profile = "Infected-Lying" THEN infected_lying_next(prev_val, d)
    ELSE [v |-> prev_val, n |-> 0]

Transition(r, qid, d) ==
    Rule(r.profile, PrevVal(PrevAttempt(r), qid), NORM[qid], r.infected_targets, qid, d)

\* lines 116-130: one iteration of the inner loop; the last one appends nxt
InnerStep(r, d) ==
    LET qid == catalog[r.qi]
        t == Transition(r, qid, d)
        filled == Put(r.nxt, qid, t.v)
    IN  IF r.qi = Len(catalog)
        THEN [r EXCEPT !.nxt = filled, !.rng = Consume(@, t.n),
                       !.all_attempts = Append(@, filled),
                       !.k = @ + 1, !.pc = "outer"]
        ELSE [r EXCEPT !.nxt = filled, !.rng = Consume(@, t.n), !.qi = @ + 1]

\* the draws the call consumes at its position
UsedBy(r, d) ==
    IF r.pc = "targets" THEN extreme_target_for_norm(NORM[catalog[r.qi]], d).n
    ELSE IF r.pc = "inner" THEN Transition(r, catalog[r.qi], d).n
    ELSE 0

\* the step of the call at its position, given the draws d
StepRun(r, d) ==
    IF r.pc = "start" THEN Start(r)
    ELSE IF r.pc = "targets" THEN ChooseTarget(r, d)
    ELSE IF r.pc = "outer" THEN OuterHead(r)
    ELSE InnerStep(r, d)

\* lines 75-76: the at-target jump branch of infected_truthful_next is taken
JumpTaken(r, d) ==
    /\ r.profile = "Infected-Truthful"
    /\ PrevVal(PrevAttempt(r), catalog[r.qi]) = r.infected_targets[catalog[r.qi]]
    /\ RandomBelow(d[1], 5)

\* lines 85-88: the stall or the overshoot branch of infected_truthful_next is taken
StallOrOvershoot(r, d) ==
    /\ r.profile = "Infected-Truthful"
    /\ PrevVal(PrevAttempt(r), catalog[r.qi]) # r.infected_targets[catalog[r.qi]]
    /\ (d[1] < 10 \/ d[1] > 95)

(***************************************************************************)
(* longetude.py: evolve_answers, the dict objects of one call.  objs[o] is *)
(* the content of object o; baseline_answers, all_attempts and nxt hold    *)
(* the objects the names are bound to (nxt = 0: not bound yet).  Object 1  *)
(* is the caller's mapping.  The position of the call is that of the       *)
(* record r, which advances by the same step.                              *)
(***************************************************************************)
NewMem(baseline_answers) ==
    [objs |-> <<baseline_answers>>, baseline_answers |-> 1,
     all_attempts |-> <<>>, nxt |-> 0]

NoMem == [objs |-> <<>>, baseline_answers |-> 0, all_attempts |-> <<>>, nxt |-> 0]

\* line 105: all_attempts = [dict(baseline_answers)], a new dict with the entries
\* of the caller's
StartMem(m) ==
    [m EXCEPT !.objs = Append(@, @[m.baseline_answers]),
              !.all_attempts = <<Len(m.objs) + 1>>]

\* as OuterHeadMem, the dict of the previous step emptied and filled again
OuterHeadMemClear(m, r) ==
    IF r.k <= r.attempts_total
    THEN IF m.nxt = 0
         THEN [m EXCEPT !.objs = Append(@, EmptyDict), !.nxt = Len(m.objs) + 1]
         ELSE [m EXCEPT !.objs[m.nxt] = EmptyDict]
    ELSE m

\* line 114: nxt = {}, a new dict at every step
OuterHeadMem(m, r) ==
    IF r.k <= r.attempts_total
    THEN [m EXCEPT !.objs = Append(@, EmptyDict), !.nxt = Len(m.objs) + 1]
    ELSE m

\* line 113: prev = all_attempts[-1]
PrevObject(m) == m.objs[m.all_attempts[Len(m.all_attempts)]]

\* lines 116-130: nxt[qid] = ... written into the object nxt is bound to; the
\* last iteration appends that object to all_attempts
InnerStepMem(m, r, d) ==
    LET qid == catalog[r.qi]
        t == Rule(r.profile, PrevVal(PrevObject(m), qid), NORM[qid],
                  r.infected_targets, qid, d)
        written == [m EXCEPT !.objs[m.nxt] = Put(@, qid, t.v)]
    IN  IF r.qi = Len(catalog)
        THEN [written EXCEPT !.all_attempts = Append(@, m.nxt)]
        ELSE written

\* line 132: the list returned, as the contents of its objects
Returned(m) == [i \in 1..Len(m.all_attempts) |-> m.objs[m.all_attempts[i]]]

(***************************************************************************)
(* longetude.py: main.  A row is a dict over "id", "name", "answers"; an   *)
(* id is an int or a numeric string, "answers" a dict or some other value. *)
(*   pc: "read" -> "loop" <-> "evolving" ... -> "written"                  *)
(***************************************************************************)
IntId(n) == [str |-> FALSE, n |-> n]

StrId(n) == [str |-> TRUE, n |-> n]

\* int(r["id"])
int(x) == x.n

DictValue(items) == [dict |-> TRUE, items |-> items]

NotADict == [dict |-> FALSE, items |-> EmptyDict]

\* isinstance(x, dict)
IsDict(x) == x.dict

\* as KeepFirst, a later row of the same id replacing the baseline
KeepLast(baselines, pid, r) == Put(baselines, pid, r)

\* lines 146-147: the first row of an id is its baseline
KeepFirst(baselines, pid, r) ==
    IF pid \notin DOMAIN baselines THEN Put(baselines, pid, r) ELSE baselines

\* lines 142-147: one iteration of the baseline loop; order is the insertion
\* order of the dict baselines
ReadRowStep(j) ==
    LET r == j.rows[j.i]
        pid == int(r["id"])
        next == IF j.i = Len(j.rows) THEN [j EXCEPT !.pc = "loop", !.i = @ + 1]
                ELSE [j EXCEPT !.i = @ + 1]
    IN  IF "id" \notin DOMAIN r THEN next
        ELSE [next EXCEPT !.baselines = KeepFirst(@, pid, r),
                          !.order = IF pid \in DOMAIN j.baselines THEN @ ELSE Append(@, pid)]

\* line 152: profile = str(base.get("name", "Unknown"))
ProfileOf(base) == Get(base, "name", "Unknown")

\* line 153: baseline_answers = base.get("answers", {})
AnswersOf(base) == Get(base, "answers", DictValue(EmptyDict))

\* lines 165-173: the rows of one id, numbered from 1
EmitRows(pid, profile, attempts) ==
    [idx \in 1..Len(attempts) |->
        [id |-> pid, name |-> profile, answers |-> attempts[idx],
         questionnaire_version |-> idx]]

NewJob(rows, rng) ==
    [rows |-> rows, i |-> 1, baselines |-> EmptyDict, order |-> <<>>, bi |-> 1,
     out_rows |-> <<>>, rng |-> rng, pc |-> IF rows = <<>> THEN "loop" ELSE "read"]

NoJob == [NewJob(<<>>, [seed |-> NoSeed, pos |-> 0]) EXCEPT !.pc = "idle"]

(***************************************************************************)
(* result_analysis.py: the catalog, the scores, the flags.                 *)
(* A value of an answer set is a Python object: an int, a bool (an int to  *)
(* isinstance), or something else.  A float is NaN or the exact rational   *)
(* num/den (den > 0, in lowest terms).                                     *)
(***************************************************************************)
RA_QUESTIONS ==
    << <<"q1", 2, FALSE>>, <<"q2", 1, FALSE>>, <<"q3", 5, TRUE>>, <<"q4", 1, FALSE>>,
       <<"q5", 5, TRUE>>, <<"q6", 2, FALSE>>, <<"q7", 2, FALSE>>, <<"q8", 1, FALSE>>,
       <<"q9", 2, FALSE>>, <<"q10", 4, TRUE>>, <<"q11", 4, FALSE>>, <<"q12", 1, FALSE>>,
       <<"q13", 1, FALSE>>, <<"q14", 5, TRUE>>, <<"q15", 1, FALSE>>, <<"q16", 1, FALSE>>,
       <<"q17", 1, FALSE>>, <<"q18", 3, FALSE>>, <<"q19", 2, FALSE>>, <<"q20", 1, FALSE>>,
       <<"q21", 1, FALSE>>, <<"q22", 1, FALSE>>, <<"q23", 1, TRUE>>, <<"q24", 2, FALSE>> >>

QIDS == [i \in 1..Len(RA_QUESTIONS) |-> RA_QUESTIONS[i][1]]

RA_Entry(qid) == RA_QUESTIONS[CHOOSE i \in 1..Len(RA_QUESTIONS) : RA_QUESTIONS[i][1] = qid]

RA_NORM == [qid \in {QIDS[i] : i \in 1..Len(QIDS)} |-> RA_Entry(qid)[2]]

IS_CONTRADICTORY == [qid \in {QIDS[i] : i \in 1..Len(QIDS)} |-> RA_Entry(qid)[3]]

PyInt(n) == [type |-> "int", n |-> n]

PyTrue == [type |-> "bool", n |-> 1]

PyStr == [type |-> "str", n |-> 0]

PyNone == [type |-> "NoneType", n |-> 0]

\* isinstance(v, int) and 1 <= v <= 5
IsValid(v) == v.type \in {"int", "bool"} /\ 1 <= v.n /\ v.n <= 5

\* answers.get(qid)
Lookup(answers, qid) == Get(answers, qid, PyNone)

NaN == [nan |-> TRUE, num |-> 0, den |-> 1]

RECURSIVE Gcd(_, _)
Gcd(a, b) == IF b = 0 THEN a ELSE Gcd(b, a % b)

Abs(x) == IF x < 0 THEN -x ELSE x

Max(a, b) == IF a >= b THEN a ELSE b

\* the float num/den
Float(num, den) ==
    LET g == Gcd(Abs(num), den)
    IN  [nan |-> FALSE, num |-> num \div g, den |-> den \div g]

\* math.isnan(x)
isnan(x) == x.nan

\* x - y
FloatSub(x, y) ==
    IF x.nan \/ y.nan THEN NaN ELSE Float(x.num * y.den - y.num * x.den, x.den * y.den)

\* x >= num/den, false of NaN
FloatGe(x, num, den) == ~x.nan /\ x.num * den >= num * x.den

RECURSIVE SumSeq(_)
SumSeq(s) == IF s = <<>> THEN 0 ELSE Head(s) + SumSeq(Tail(s))

\* float("nan") if not vals else sum(vals) / len(vals)
MeanOrNaN(vals) == IF vals = <<>> THEN NaN ELSE Float(SumSeq(vals), Len(vals))

\* [Term(qid, v) for qid in qids if the answer v to qid is valid]
ValidTerms(answers, qids, Term(_, _)) ==
    LET valid == SelectSeq(qids, LAMBDA q : IsValid(Lookup(answers, q)))
    IN  [i \in 1..Len(valid) |-> Term(valid[i], Lookup(answers, valid[i]).n)]

\* as abs_dev_from_norm, an empty list averaged to 0.0
abs_dev_zero_when_empty(answers, qids) ==
    LET vals == ValidTerms(answers, qids, LAMBDA qid, v : Abs(v - RA_NORM[qid]))
    IN  IF vals = <<>> THEN Float(0, 1) ELSE MeanOrNaN(vals)

abs_dev_from_norm(answers, qids) ==
    MeanOrNaN(ValidTerms(answers, qids, LAMBDA qid, v : Abs(v - RA_NORM[qid])))

\* as extreme_direction_dev, a low norm measured from the end of the scale
extreme_direction_dev_from_end(answers, qids) ==
    MeanOrNaN(ValidTerms(answers, qids,
        LAMBDA qid, v :
            IF RA_NORM[qid] >= 4 THEN Max(0, RA_NORM[qid] - v)
            ELSE IF RA_NORM[qid] <= 2 THEN Max(0, v - 1)
            ELSE Abs(v - 3)))

\* as extreme_direction_dev, the deviation counted on both sides of the norm
extreme_direction_dev_both_sides(answers, qids) ==
    MeanOrNaN(ValidTerms(answers, qids, LAMBDA qid, v : Abs(v - RA_NORM[qid])))

extreme_direction_dev(answers, qids) ==
    MeanOrNaN(ValidTerms(answers, qids,
        LAMBDA qid, v :
            IF RA_NORM[qid] >= 4 THEN Max(0, RA_NORM[qid] - v)
            ELSE IF RA_NORM[qid] <= 2 THEN Max(0, v - RA_NORM[qid])
            ELSE Abs(v - 3)))

\* round(log2(c) * 10^6), c = 1..32
Log2Micro ==
    <<0, 1000000, 1584963, 2000000, 2321928, 2584963, 2807355, 3000000, 3169925,
      3321928, 3459432, 3584963, 3700440, 3807355, 3906891, 4000000, 4087463,
      4169925, 4247928, 4321928, 4392317, 4459432, 4523562, 4584963, 4643856,
      4700440, 4754888, 4807355, 4857981, 4906891, 4954196, 5000000>>

\* the entropy, in millionths of a bit, of n values of which Count(x) are x:
\* -sum p log2 p = log2 n - (1/n) sum c log2 c
EntropyMicro(n, Count(_)) ==
    LET cs == [x \in 1..5 |-> Count(x)]
        t == [x \in 1..5 |-> IF cs[x] = 0 THEN 0 ELSE cs[x] * Log2Micro[cs[x]]]
    IN  (n * Log2Micro[n] - (t[1] + t[2] + t[3] + t[4] + t[5])) \div n

\* lines 117-127: the values of every entry of the dict are counted
response_entropy(answers) ==
    LET valid == {k \in DOMAIN answers : IsValid(answers[k])}
        n == Cardinality(valid)
    IN  IF n = 0 THEN NaN
        ELSE Float(EntropyMicro(n, LAMBDA x : Cardinality({k \in valid : answers[k].n = x})),
                   1000000)

contr_qids == SelectSeq(QIDS, LAMBDA q : IS_CONTRADICTORY[q])

noncontr_qids == SelectSeq(QIDS, LAMBDA q : ~IS_CONTRADICTORY[q])

\* as compute_scores, the operands of lie_score exchanged
compute_scores_swapped(answers) ==
    LET dev_all == abs_dev_from_norm(answers, QIDS)
        dev_contr == abs_dev_from_norm(answers, contr_qids)
        dev_noncontr == abs_dev_from_norm(answers, noncontr_qids)
        lie_score == FloatSub(dev_noncontr, dev_contr)
    IN  [health_score |-> dev_all,
         extreme_score |-> extreme_direction_dev(answers, QIDS),
         lie_score |-> lie_score,
         entropy |-> response_entropy(answers),
         dev_contradictory |-> dev_contr,
         dev_noncontradictory |-> dev_noncontr]

compute_scores(answers) ==
    LET dev_all == abs_dev_from_norm(answers, QIDS)
        dev_contr == abs_dev_from_norm(answers, contr_qids)
        dev_noncontr == abs_dev_from_norm(answers, noncontr_qids)
        lie_score == FloatSub(dev_contr, dev_noncontr)
    IN  [health_score |-> dev_all,
         extreme_score |-> extreme_direction_dev(answers, QIDS),
         lie_score |-> lie_score,
         entropy |-> response_entropy(answers),
         dev_contradictory |-> dev_contr,
         dev_noncontradictory |-> dev_noncontr]

\* as is_flag_sick, the health threshold exclusive
is_flag_sick_strict(health_score, extreme_score) ==
    IF isnan(health_score) \/ isnan(extreme_score) THEN FALSE
    ELSE (FloatGe(health_score, 125, 100) /\ health_score # Float(125, 100))
            \/ FloatGe(extreme_score, 1, 1)

is_flag_sick(health_score, extreme_score) ==
    IF isnan(health_score) \/ isnan(extreme_score) THEN FALSE
    ELSE FloatGe(health_score, 125, 100) \/ FloatGe(extreme_score, 1, 1)

\* as is_flag_lying, the lie threshold exclusive
is_flag_lying_strict(lie_score, entropy) ==
    IF isnan(lie_score) THEN FALSE
    ELSE (FloatGe(lie_score, 60, 100) /\ lie_score # Float(60, 100))
            \/ (~isnan(entropy) /\ FloatGe(entropy, 205, 100))

is_flag_lying(lie_score, entropy) ==
    IF isnan(lie_score) THEN FALSE
    ELSE FloatGe(lie_score, 60, 100) \/ (~isnan(entropy) /\ FloatGe(entropy, 205, 100))

NoScores ==
    [health_score |-> NaN, extreme_score |-> NaN, lie_score |-> NaN, entropy |-> NaN,
     dev_contradictory |-> NaN, dev_noncontradictory |-> NaN]

NewRec(answers) ==
    [answers |-> answers, scores |-> NoScores, flag_sick |-> FALSE, flag_lying |-> FALSE,
     pc |-> "row"]

NoRec == [NewRec(EmptyDict) EXCEPT !.pc = "idle"]

(***************************************************************************)
(* result_analysis.py: mean_std.  The standard deviation is the root-th     *)
(* root of num/den (root 1 or 2): a square root that is no rational number *)
(* is kept as its radicand.                                                *)
(***************************************************************************)
FloatAdd(x, y) ==
    IF x.nan \/ y.nan THEN NaN ELSE Float(x.num * y.den + y.num * x.den, x.den * y.den)

FloatMul(x, y) == IF x.nan \/ y.nan THEN NaN ELSE Float(x.num * y.num, x.den * y.den)

\* x / n, n a positive integer
FloatOver(x, n) == IF x.nan THEN NaN ELSE Float(x.num, x.den * n)

RECURSIVE FloatSum(_)
FloatSum(s) == IF s = <<>> THEN Float(0, 1) ELSE FloatAdd(Head(s), FloatSum(Tail(s)))

\* the integer square root
ISqrt(n) == CHOOSE r \in 0..n : r * r <= n /\ n < (r + 1) * (r + 1)

Root(x, root) == [nan |-> x.nan, num |-> x.num, den |-> x.den, root |-> root]

\* math.sqrt(x), x >= 0
sqrt(x) ==
    IF x.nan THEN Root(NaN, 1)
    ELSE IF ISqrt(x.num) * ISqrt(x.num) = x.num /\ ISqrt(x.den) * ISqrt(x.den) = x.den
         THEN Root(Float(ISqrt(x.num), ISqrt(x.den)), 1)
         ELSE Root(x, 2)

\* statistics.mean(vals)
mean(vals) == FloatOver(FloatSum(vals), Len(vals))

\* the sum of the squared deviations of vals from m, over n
SquaresOver(vals, m, n) ==
    FloatOver(FloatSum([i \in 1..Len(vals) |->
                  FloatMul(FloatSub(vals[i], m), FloatSub(vals[i], m))]), n)

\* as stdev, the squares averaged over the whole count
pstdev(vals) == sqrt(SquaresOver(vals, mean(vals), Len(vals)))

\* statistics.stdev(vals): the sample standard deviation
stdev(vals) == sqrt(SquaresOver(vals, mean(vals), Len(vals) - 1))

\* as mean_std, the population standard deviation taken
mean_std_population(values) ==
    LET vals == SelectSeq(values, LAMBDA v : ~isnan(v))
    IN  IF vals = <<>> THEN <<NaN, Root(NaN, 1)>>
        ELSE IF Len(vals) = 1 THEN <<vals[1], Root(Float(0, 1), 1)>>
        ELSE <<mean(vals), pstdev(vals)>>

mean_std(values) ==
    LET vals == SelectSeq(values, LAMBDA v : ~isnan(v))
    IN  IF vals = <<>> THEN <<NaN, Root(NaN, 1)>>
        ELSE IF Len(vals) = 1 THEN <<vals[1], Root(Float(0, 1), 1)>>
        ELSE <<mean(vals), stdev(vals)>>

NewAgg(values) == [values |-> values, result |-> <<NaN, Root(NaN, 1)>>, pc |-> "group"]

NoAgg == [NewAgg(<<>>) EXCEPT !.pc = "idle"]

(***************************************************************************)
(* simulating_responses.py: the cohort generator.  Its draws are resolved  *)
(* to the thousandth (the pattern weights of main are 90, 9.7, 0.2, 0.1):  *)
(* a generator is [seed, pos, x], x its state, and a draw u stands for     *)
(* random() in [u/1000, (u + 1)/1000).                                      *)
(***************************************************************************)
SIM_QUESTIONS ==
    << <<"q1", 2, FALSE>>, <<"q2", 1, FALSE>>, <<"q3", 5, TRUE>>, <<"q4", 1, FALSE>>,
       <<"q5", 5, TRUE>>, <<"q6", 2, FALSE>>, <<"q7", 2, FALSE>>, <<"q8", 1, FALSE>>,
       <<"q9", 2, FALSE>>, <<"q10", 4, TRUE>>, <<"q11", 4, FALSE>>, <<"q12", 1, FALSE>>,
       <<"q13", 1, FALSE>>, <<"q14", 5, TRUE>>, <<"q15", 1, FALSE>>, <<"q16", 1, FALSE>>,
       <<"q17", 1, FALSE>>, <<"q18", 3, FALSE>>, <<"q19", 2, FALSE>>, <<"q20", 1, FALSE>>,
       <<"q21", 1, FALSE>>, <<"q22", 1, FALSE>>, <<"q23", 1, TRUE>>, <<"q24", 2, FALSE>>,
       <<"q25", 1, TRUE>>, <<"q26", 4, TRUE>>, <<"q27", 4, TRUE>>, <<"q28", 1, TRUE>>,
       <<"q29", 3, TRUE>> >>

\* random.Random(seed)
NewGen(seed) == [seed |-> seed, pos |-> 0, x |-> seed % 1000]

\* the next draw of generator g, and g after it
Take(g) ==
    LET x == (21 * g.x + 7) % 1000
    IN  [u |-> x, g |-> [g EXCEPT !.pos = @ + 1, !.x = x]]

\* choice(seq)
ChoiceOf(seq, u) == seq[1 + (u * Len(seq)) \div 1000]

\* randint(a, b), b - a + 1 a multiple of 1000
RandintOf(a, b, u) == a + u * ((b - a + 1) \div 1000)

\* choices(population, weights, k=1)[0]
ChoicesOf(population, weights, u) ==
    LET n == Len(population)
        total == SumTo(weights, n)
        idx == Cardinality({i \in 1..n : SumTo(weights, i) * 1000 <= u * total})
    IN  population[IF idx + 1 > n THEN n ELSE idx + 1]

\* lines 54-67: the weights Normal_True gives a question of the given norm
NormalWeights(norm) ==
    IF norm = 1 THEN <<50, 25, 15, 7, 3>>
    ELSE IF norm = 2 THEN <<25, 40, 20, 10, 5>>
    ELSE IF norm = 4 THEN <<5, 10, 20, 40, 25>>
    ELSE IF norm = 5 THEN <<3, 7, 15, 25, 50>>
    ELSE <<5, 25, 40, 25, 5>>

\* lines 74-87: the weights Infected_True gives a question of the given norm
InfectedWeights(norm) ==
    IF norm = 1 THEN <<3, 7, 15, 25, 50>>
    ELSE IF norm = 2 THEN <<5, 10, 20, 40, 25>>
    ELSE IF norm = 4 THEN <<25, 40, 20, 10, 5>>
    ELSE IF norm = 5 THEN <<50, 25, 15, 7, 3>>
    ELSE <<30, 17, 6, 17, 30>>

RECURSIVE TruthfulFrom(_, _, _, _, _)
\* the loop of Normal_True / Infected_True from question i on, drawing from g
TruthfulFrom(Questions, infected, i, ret, g) ==
    IF i > Len(Questions) THEN [v |-> ret, g |-> g]
    ELSE LET qid == Questions[i]
             d == Take(g)
             w == IF infected THEN InfectedWeights(qid[2]) ELSE NormalWeights(qid[2])
         IN  TruthfulFrom(Questions, infected, i + 1,
                          Put(ret, qid[1], ChoicesOf(<<1, 2, 3, 4, 5>>, w, d.u)), d.g)

\* Normal_True(Questions), random being the generator g of the module random
Normal_True(Questions, g) == TruthfulFrom(Questions, FALSE, 1, EmptyDict, g)

\* Infected_True(Questions), random being the generator g of the module random
Infected_True(Questions, g) == TruthfulFrom(Questions, TRUE, 1, EmptyDict, g)

\* lines 95-96
clamp_1_5_sim(x) == IF x < 1 THEN 1 ELSE IF x > 5 THEN 5 ELSE x

sample_near(value, rng, tight) ==
    LET d == Take(rng)
    IN  IF tight
        THEN [v |-> ChoicesOf(<<clamp_1_5_sim(value - 1), value, clamp_1_5_sim(value + 1)>>,
                              <<20, 60, 20>>, d.u),
              g |-> d.g]
        ELSE [v |-> ChoicesOf(<<clamp_1_5_sim(value - 2), clamp_1_5_sim(value - 1), value,
                                clamp_1_5_sim(value + 1), clamp_1_5_sim(value + 2)>>,
                              <<10, 20, 40, 20, 10>>, d.u),
              g |-> d.g]

plausible_random(rng) ==
    LET d == Take(rng)
    IN  [v |-> ChoicesOf(<<1, 2, 3, 4, 5>>, <<8, 22, 40, 22, 8>>, d.u), g |-> d.g]

\* lines 156-190: the answer the strategy gives one question
StrategyAnswer(strategy, norm_biased, is_contra, rng) ==
    IF strategy = "social"
    THEN IF ~is_contra THEN sample_near(norm_biased, rng, TRUE)
         ELSE LET d1 == Take(rng)
                  d2 == Take(d1.g)
                  d3 == Take(d2.g)
                  direction == ChoiceOf(<<-1, 1>>, d2.u)
                  step == ChoicesOf(<<1, 2>>, <<70, 30>>, d3.u)
              IN  IF d1.u < 600
                  THEN [v |-> clamp_1_5_sim(norm_biased + direction * step), g |-> d3.g]
                  ELSE sample_near(norm_biased, d1.g, TRUE)
    ELSE IF strategy = "defensive"
    THEN LET d1 == Take(rng)
             d2 == Take(d1.g)
         IN  IF d1.u < 800
             THEN [v |-> ChoicesOf(<<2, 3, 4>>, <<30, 40, 30>>, d2.u), g |-> d2.g]
             ELSE sample_near(norm_biased, d1.g, TRUE)
    ELSE IF strategy = "overcompensate_contradict"
    THEN IF is_contra
         THEN LET fixed == norm_biased >= 4 \/ norm_biased <= 2
                  d1 == Take(rng)
                  direction == IF norm_biased >= 4 THEN -1
                               ELSE IF norm_biased <= 2 THEN 1
                               ELSE ChoiceOf(<<-1, 1>>, d1.u)
                  d2 == Take(IF fixed THEN rng ELSE d1.g)
                  step == ChoicesOf(<<1, 2, 3>>, <<55, 30, 15>>, d2.u)
              IN  [v |-> clamp_1_5_sim(norm_biased + direction * step), g |-> d2.g]
         ELSE sample_near(norm_biased, rng, TRUE)
    ELSE plausible_random(rng)

\* lines 194-201: an infected liar drifts one step towards the sick extreme
Drift(ans, norm_biased, infected, rng) ==
    IF ~infected THEN [v |-> ans, g |-> rng]
    ELSE LET d1 == Take(rng)
             d2 == Take(d1.g)
         IN  IF d1.u >= 150 THEN [v |-> ans, g |-> d1.g]
             ELSE IF norm_biased >= 4 THEN [v |-> clamp_1_5_sim(ans - 1), g |-> d1.g]
             ELSE IF norm_biased <= 2 THEN [v |-> clamp_1_5_sim(ans + 1), g |-> d1.g]
             ELSE [v |-> clamp_1_5_sim(ans + ChoiceOf(<<-1, 1>>, d2.u)), g |-> d2.g]

RECURSIVE LiarFrom(_, _, _, _, _, _, _)
\* lines 153-203: the loop of generate_liar_answers from question i on
LiarFrom(questions, infected, style_bias, strategy, i, ret, rng) ==
    IF i > Len(questions) THEN ret
    ELSE LET q == questions[i]
             norm_biased == clamp_1_5_sim(q[2] + style_bias)
             a == StrategyAnswer(strategy, norm_biased, q[3], rng)
             b == Drift(a.v, norm_biased, infected, a.g)
         IN  LiarFrom(questions, infected, style_bias, strategy, i + 1,
                      Put(ret, q[1], b.v), b.g)

generate_liar_answers(questions, rng, infected) ==
    LET d1 == Take(rng)
        style_bias == ChoicesOf(<<-1, 0, 1>>, <<15, 70, 15>>, d1.u)
        d2 == Take(d1.g)
        strategy == ChoicesOf(<<"social", "defensive", "overcompensate_contradict",
                                "plausible_random">>, <<45, 25, 20, 10>>, d2.u)
    IN  LiarFrom(questions, infected, style_bias, strategy, 1, EmptyDict, d2.g)

\* lines 208-210; entropy seeds the generator random.Random() creates
Healthy_Lying(questions, entropy) == generate_liar_answers(questions, NewGen(entropy), FALSE)

\* lines 212-214; entropy seeds the generator random.Random() creates
Infected_Lying(questions, entropy) == generate_liar_answers(questions, NewGen(entropy), TRUE)

\* lines 217-222 and 227-228: PATTERNS[pattern_name](QUESTIONS); random is the
\* generator of the module random, entropy what a new generator is seeded with
Pattern(pattern_name, random, entropy) ==
    IF pattern_name = "Healthy-Truthful" THEN Normal_True(SIM_QUESTIONS, random)
    ELSE IF pattern_name = "Healthy-Lying"
         THEN [v |-> Healthy_Lying(SIM_QUESTIONS, entropy), g |-> random]
    ELSE IF pattern_name = "Infected-Truthful" THEN Infected_True(SIM_QUESTIONS, random)
    ELSE [v |-> Infected_Lying(SIM_QUESTIONS, entropy), g |-> random]

\* whether the pattern creates a generator of its own
CreatesGenerator(pattern_name) == pattern_name \in {"Healthy-Lying", "Infected-Lying"}

\* lines 226-235: rng is not drawn from
simulate_one_run(pattern_name, rng, random, entropy) ==
    LET answers == Pattern(pattern_name, random, entropy)
        d == Take(answers.g)
    IN  [record |-> [id |-> RandintOf(10000000, 99999999, d.u), name |-> pattern_name,
                     answers |-> answers.v, questionnaire_version |-> 1],
         rng |-> rng, random |-> d.g]

total_runs == 10000

pattern_cycle == <<"Healthy-Truthful", "Healthy-Lying", "Infected-Truthful", "Infected-Lying">>

\* line 239 and the state of the process: rng, the generator of the module
\* random (seeded from the entropy of the process), the records appended
NewMain(seed, env) ==
    [rng |-> NewGen(seed), random |-> NewGen(env), records |-> <<>>, i |-> 0, pc |-> "loop"]

\* lines 243-246: one iteration of the loop of main
MainStep(m, entropy) ==
    LET d == Take(m.random)
        pattern_name == pattern_cycle[ChoicesOf(<<0, 1, 2, 3>>, <<900, 97, 2, 1>>, d.u) + 1]
        r == simulate_one_run(pattern_name, m.rng, d.g, entropy)
    IN  [m EXCEPT !.rng = r.rng, !.random = r.random,
                  !.records = Append(@, r.record),
                  !.i = @ + 1,
                  !.pc = IF m.i + 1 >= total_runs \/ m.i + 1 >= MaxRuns THEN "done" ELSE "loop"]

\* the pattern the iteration draws
NextPattern(m) ==
    pattern_cycle[ChoicesOf(<<0, 1, 2, 3>>, <<900, 97, 2, 1>>, Take(m.random).u) + 1]

NoCohort == [first |-> [NewMain(0, 0) EXCEPT !.pc = "idle"],
             second |-> [NewMain(0, 0) EXCEPT !.pc = "idle"]]

(***************************************************************************)
(* Actions on run                                                          *)
(***************************************************************************)
Begin ==
    /\ run.pc = "start"
    /\ run' = Start(run)
    /\ UNCHANGED <<catalog, twin, ambient, jumps, job, rec, agg, cohort, mem>>

Target ==
    /\ run.pc = "targets"
    /\ \E d \in Draws(run.rng, LAMBDA x : UsedBy(run, x)) : run' = ChooseTarget(run, d)
    /\ UNCHANGED <<catalog, twin, ambient, jumps, job, rec, agg, cohort, mem>>

Outer ==
    /\ run.pc = "outer"
    /\ run' = OuterHead(run)
    /\ UNCHANGED <<catalog, twin, ambient, jumps, job, rec, agg, cohort, mem>>

Inner ==
    /\ run.pc = "inner"
    /\ \E d \in Draws(run.rng, LAMBDA x : UsedBy(run, x)) : run' = InnerStep(run, d)
    /\ UNCHANGED <<catalog, twin, ambient, jumps, job, rec, agg, cohort, mem>>

\* the inner iteration when neither the stall nor the overshoot branch is taken
InnerCalm ==
    /\ run.pc = "inner"
    /\ \E d \in Draws(run.rng, LAMBDA x : UsedBy(run, x)) :
          /\ ~StallOrOvershoot(run, d)
          /\ JumpTaken(run, d) => jumps < MaxJumps
          /\ run' = InnerStep(run, d)
          /\ jumps' = IF JumpTaken(run, d) THEN jumps + 1 ELSE jumps
    /\ UNCHANGED <<catalog, twin, ambient, job, rec, agg, cohort, mem>>

\* the second call, made once the first has returned
TwinStep ==
    /\ run.pc = "done"
    /\ twin.pc \notin {"done", "idle"}
    /\ \E d \in Draws(twin.rng, LAMBDA x : UsedBy(twin, x)) : twin' = StepRun(twin, d)
    /\ UNCHANGED <<catalog, run, ambient, jumps, job, rec, agg, cohort, mem>>

(***************************************************************************)
(* Specification Spec: one call of evolve_answers on a generator of        *)
(* unknown seed, any profile label, any baseline over the slice.           *)
(***************************************************************************)
BaseVals == (1 - Over)..(5 + Over)

Keys(cat) == {cat[i] : i \in 1..Len(cat)}

Baselines(cat, vals) == UNION {[K -> vals] : K \in SUBSET Keys(cat)}

Labels == PROFILES \cup {"Unknown"}

Unseeded == [seed |-> NoSeed, pos |-> 0]

Idle == [NewRun("Unknown", EmptyDict, 0, Unseeded) EXCEPT !.pc = "idle"]

\* the calls modelled: a slice of two questions is followed for one transition
Calls(cat) ==
    {c \in [profile : Labels, baseline : Baselines(cat, BaseVals), n : 1..MaxAttempts] :
        Len(cat) = 1 \/ c.n <= 2}

Init ==
    /\ catalog \in Windows
    /\ \E c \in Calls(catalog) : run = NewRun(c.profile, c.baseline, c.n, Unseeded)
    /\ twin = Idle
    /\ ambient = <<0, 0>>
    /\ jumps = 0
    /\ mem = NoMem
    /\ agg = NoAgg
    /\ cohort = NoCohort
    /\ job = NoJob
    /\ rec = NoRec

Next == Begin \/ Target \/ Outer \/ Inner

Spec == Init /\ [][Next]_vars

(***************************************************************************)
(* Specification SpecDet: two calls on the same seed, profile, baseline    *)
(* and step count, each in a process of its own.                           *)
(***************************************************************************)
\* as SeedRng, the generator created unseeded: random.Random()
SeedRngAmbient(seed, env) == [seed |-> env, pos |-> 0]

\* line 136: rng = random.Random(12345); env is what the process holds besides

SeedRng(seed, env) == [seed |-> seed, pos |-> 0]

InitDet ==
    /\ catalog \in Windows
    /\ ambient \in {<<0, 0>>, <<0, 1>>}
    /\ \E c \in Calls(catalog), s \in SEED..(SEED + MaxSeedOffset) :
          /\ run = NewRun(c.profile, c.baseline, c.n, SeedRng(s, ambient[1]))
          /\ twin = NewRun(c.profile, c.baseline, c.n, SeedRng(s, ambient[2]))
    /\ jumps = 0
    /\ mem = NoMem
    /\ agg = NoAgg
    /\ cohort = NoCohort
    /\ job = NoJob
    /\ rec = NoRec

NextDet == Begin \/ Target \/ Outer \/ Inner \/ TwinStep

SpecDet == InitDet /\ [][NextDet]_vars

(***************************************************************************)
(* Specification SpecFallback: a call with a label that is none of the     *)
(* four profiles, then a call with one of the four on the same baseline    *)
(* and step count.                                                         *)
(***************************************************************************)
InitFallback ==
    /\ catalog \in Windows
    /\ \E c \in Calls(catalog), known \in PROFILES :
          /\ c.profile \notin PROFILES
          /\ run = NewRun(c.profile, c.baseline, c.n, Unseeded)
          /\ twin = NewRun(known, c.baseline, c.n, Unseeded)
    /\ ambient = <<0, 0>>
    /\ jumps = 0
    /\ mem = NoMem
    /\ agg = NoAgg
    /\ cohort = NoCohort
    /\ job = NoJob
    /\ rec = NoRec

NextFallback == Begin \/ Outer \/ Inner \/ TwinStep

SpecFallback == InitFallback /\ [][NextFallback]_vars

(***************************************************************************)
(* Specification SpecObjects: one call of evolve_answers followed with its *)
(* dict objects, on a baseline that may hold keys outside the catalog.     *)
(* One-question slices run on a generator of unknown seed; the whole       *)
(* catalog runs on the stream of SEED.                                     *)
(***************************************************************************)
BeginMem ==
    /\ run.pc = "start"
    /\ run' = Start(run)
    /\ mem' = StartMem(mem)
    /\ UNCHANGED <<catalog, twin, ambient, jumps, job, rec, agg, cohort>>

OuterMem ==
    /\ run.pc = "outer"
    /\ run' = OuterHead(run)
    /\ mem' = OuterHeadMem(mem, run)
    /\ UNCHANGED <<catalog, twin, ambient, jumps, job, rec, agg, cohort>>

InnerMem ==
    /\ run.pc = "inner"
    /\ \E d \in Draws(run.rng, LAMBDA x : UsedBy(run, x)) :
          /\ run' = InnerStep(run, d)
          /\ mem' = InnerStepMem(mem, run, d)
    /\ UNCHANGED <<catalog, twin, ambient, jumps, job, rec, agg, cohort>>

\* the questions simulating_responses.py answers and longetude.py has no norm for
ExtraKeys == {SIM_QUESTIONS[i][1] : i \in 1..Len(SIM_QUESTIONS)} \ DOMAIN NORM

\* the baseline b with an answer to every question in extra as well
WithExtra(b, extra) == [q \in (DOMAIN b) \cup extra |-> IF q \in DOMAIN b THEN b[q] ELSE 3]

\* the calls modelled; the baselines of the whole-catalog calls are the empty
\* one, the norms, and the first half of the catalog away from its norms
ObjectCalls(cat) ==
    [profile : Labels,
     baseline : {WithExtra(b, extra) :
                    b \in IF Len(cat) = 1
                          THEN Baselines(cat, BaseVals)
                          ELSE {EmptyDict, NORM,
                                [q \in Keys(Slice(1, 12)) |-> 6 - NORM[q]]},
                    extra \in {{}, {"q25"}, ExtraKeys}},
     n : 1..MaxAttempts]

InitObjects ==
    /\ catalog \in {Slice(10, 10), Slice(18, 18), Slice(1, Len(QUESTIONS))}
    /\ \E c \in ObjectCalls(catalog) :
          /\ run = NewRun(c.profile, c.baseline, c.n,
                          IF Len(catalog) = 1 THEN Unseeded ELSE SeedRng(SEED, 0))
          /\ mem = NewMem(c.baseline)
    /\ twin = Idle
    /\ ambient = <<0, 0>>
    /\ jumps = 0
    /\ agg = NoAgg
    /\ cohort = NoCohort
    /\ job = NoJob
    /\ rec = NoRec

NextObjects == BeginMem \/ Target \/ OuterMem \/ InnerMem

SpecObjects == InitObjects /\ [][NextObjects]_vars

(***************************************************************************)
(* Specification SpecCalm: an Infected-Truthful call of ConvergeSteps      *)
(* steps in which the stall and overshoot branches are not taken.          *)
(***************************************************************************)
CalmWindows == {Slice(2, 2), Slice(10, 10), Slice(18, 18)}

InitCalm ==
    /\ catalog \in CalmWindows
    /\ \E b \in Baselines(catalog, 1..5) :
          run = NewRun("Infected-Truthful", b, ConvergeSteps, Unseeded)
    /\ twin = Idle
    /\ ambient = <<0, 0>>
    /\ jumps = 0
    /\ mem = NoMem
    /\ agg = NoAgg
    /\ cohort = NoCohort
    /\ job = NoJob
    /\ rec = NoRec

NextCalm == Begin \/ Target \/ Outer \/ InnerCalm

SpecCalm == InitCalm /\ [][NextCalm]_vars

(***************************************************************************)
(* Specification SpecMain: longetude.py main on a list of input rows.      *)
(***************************************************************************)
ReadRow ==
    /\ job.pc = "read"
    /\ job' = ReadRowStep(job)
    /\ UNCHANGED <<catalog, run, twin, ambient, jumps, rec, agg, cohort, mem>>

\* lines 151-162: the head of the loop over the baselines; a baseline whose
\* answers are no dict is skipped; line 175 once the loop is over
NextBaseline ==
    /\ job.pc = "loop"
    /\ IF job.bi > Len(job.order)
       THEN job' = [job EXCEPT !.pc = "written"] /\ run' = run
       ELSE LET base == job.baselines[job.order[job.bi]]
            IN  IF ~IsDict(AnswersOf(base))
                THEN job' = [job EXCEPT !.bi = @ + 1] /\ run' = run
                ELSE /\ job' = [job EXCEPT !.pc = "evolving"]
                     /\ run' = NewRun(ProfileOf(base), AnswersOf(base).items,
                                      TOTAL_ATTEMPTS_PER_ID, job.rng)
    /\ UNCHANGED <<catalog, twin, ambient, jumps, rec, agg, cohort, mem>>

\* lines 165-173: evolve_answers has returned; the generator is the one object
Emit ==
    /\ job.pc = "evolving"
    /\ run.pc = "done"
    /\ job' = [job EXCEPT
                  !.out_rows = @ \o EmitRows(job.order[job.bi], run.profile, run.all_attempts),
                  !.rng = run.rng, !.bi = @ + 1, !.pc = "loop"]
    /\ UNCHANGED <<catalog, run, twin, ambient, jumps, rec, agg, cohort, mem>>

\* the input rows of the model, over the first question of the slice
InputRows(cat) ==
    LET q == cat[1]
        a == [id |-> IntId(1), name |-> "Healthy-Lying",
              answers |-> DictValue([x \in {q} |-> 2])]
        b == [id |-> StrId(1), name |-> "Infected-Truthful",
              answers |-> DictValue([x \in {q} |-> 5])]
        c == [id |-> IntId(2), answers |-> DictValue(EmptyDict)]
        d == [id |-> IntId(2), name |-> "Healthy-Truthful", answers |-> NotADict]
        e == [name |-> "Infected-Lying", answers |-> DictValue([x \in {q} |-> 1])]
        f == [id |-> StrId(2), name |-> "Infected-Lying"]
    IN  {a, b, c, d, e, f}

SeqsUpTo(S, n) == UNION {[1..m -> S] : m \in 0..n}

InitMain ==
    /\ catalog \in Windows
    /\ \E rows \in SeqsUpTo(InputRows(catalog), MaxRows) :
          job = NewJob(rows, SeedRng(SEED, 0))
    /\ run = Idle
    /\ twin = Idle
    /\ ambient = <<0, 0>>
    /\ jumps = 0
    /\ mem = NoMem
    /\ agg = NoAgg
    /\ cohort = NoCohort
    /\ rec = NoRec

NextMain == ReadRow \/ NextBaseline \/ Begin \/ Target \/ Outer \/ Inner \/ Emit

SpecMain == InitMain /\ [][NextMain]_vars

(***************************************************************************)
(* Specification SpecScore: one record scored and flagged, its answer set  *)
(* drawn from the dicts of at most MaxAnswers entries over ScoreKeys.      *)
(* Specification SpecFlags: the flags applied to any score vector.         *)
(***************************************************************************)
\* line 298: scores = compute_scores(answers)
Score ==
    /\ rec.pc = "row"
    /\ rec' = [rec EXCEPT !.scores = compute_scores(rec.answers), !.pc = "scored"]
    /\ UNCHANGED <<catalog, run, twin, ambient, jumps, job, agg, cohort, mem>>

\* lines 312-313
Flag ==
    /\ rec.pc = "scored"
    /\ rec' = [rec EXCEPT
                  !.flag_sick = is_flag_sick(rec.scores.health_score, rec.scores.extreme_score),
                  !.flag_lying = is_flag_lying(rec.scores.lie_score, rec.scores.entropy),
                  !.pc = "flagged"]
    /\ UNCHANGED <<catalog, run, twin, ambient, jumps, job, agg, cohort, mem>>

\* three catalog questions (norm 2; norm 5, contradictory; norm 3) and a key
\* that is no question id
ScoreKeys == {"q1", "q3", "q18", "zz"}

ScoreValues == {PyInt(n) : n \in BaseVals} \cup {PyTrue, PyStr, PyNone}

AnswerSets ==
    UNION {[K -> ScoreValues] : K \in {K \in SUBSET ScoreKeys : Cardinality(K) <= MaxAnswers}}

\* the answer sets over all 24 questions in which every contradictory question
\* deviates from its norm by dc (towards 3) and every other question by dn
\* (upwards)
ScenarioSets ==
    {[q \in DOMAIN RA_NORM |->
         PyInt(IF IS_CONTRADICTORY[q]
               THEN (IF RA_NORM[q] >= 3 THEN RA_NORM[q] - dc ELSE RA_NORM[q] + dc)
               ELSE RA_NORM[q] + dn)] : dc \in 0..2, dn \in 0..1}

InitScore ==
    /\ catalog = Slice(1, 1)
    /\ run = Idle
    /\ twin = Idle
    /\ ambient = <<0, 0>>
    /\ jumps = 0
    /\ mem = NoMem
    /\ agg = NoAgg
    /\ cohort = NoCohort
    /\ job = NoJob
    /\ \E a \in AnswerSets \cup ScenarioSets : rec = NewRec(a)

NextScore == Score \/ Flag

SpecScore == InitScore /\ [][NextScore]_vars

\* the floats the flags are probed with: NaN and the hundredths around the
\* four thresholds
ProbeFloats == {NaN} \cup {Float(n, 100) : n \in {0, 59, 60, 99, 100, 124, 125, 204, 205}}

InitFlags ==
    /\ catalog = Slice(1, 1)
    /\ run = Idle
    /\ twin = Idle
    /\ ambient = <<0, 0>>
    /\ jumps = 0
    /\ mem = NoMem
    /\ agg = NoAgg
    /\ cohort = NoCohort
    /\ job = NoJob
    /\ \E hs \in ProbeFloats, es \in ProbeFloats, ls \in ProbeFloats, en \in ProbeFloats :
          rec = [NewRec(EmptyDict) EXCEPT
                    !.scores = [NoScores EXCEPT !.health_score = hs, !.extreme_score = es,
                                                !.lie_score = ls, !.entropy = en],
                    !.pc = "scored"]

NextFlags == Flag

SpecFlags == InitFlags /\ [][NextFlags]_vars

(***************************************************************************)
(* Specification SpecAgg: mean_std applied to a group of at most MaxValues *)
(* floats.                                                                 *)
(***************************************************************************)
\* lines 341-343, 381-383: a group reduced to (mean, standard deviation)
Reduce ==
    /\ agg.pc = "group"
    /\ agg' = [agg EXCEPT !.result = mean_std(agg.values), !.pc = "reduced"]
    /\ UNCHANGED <<catalog, run, twin, ambient, jumps, job, rec, cohort, mem>>

\* the floats a group is drawn from
GroupFloats == {NaN, Float(0, 1), Float(1, 2), Float(1, 1), Float(5, 4), Float(4, 1)}

InitAgg ==
    /\ catalog = Slice(1, 1)
    /\ run = Idle
    /\ twin = Idle
    /\ ambient = <<0, 0>>
    /\ jumps = 0
    /\ mem = NoMem
    /\ job = NoJob
    /\ rec = NoRec
    /\ cohort = NoCohort
    /\ \E vs \in SeqsUpTo(GroupFloats, MaxValues) : agg = NewAgg(vs)

NextAgg == Reduce

SpecAgg == InitAgg /\ [][NextAgg]_vars

(***************************************************************************)
(* Specification SpecCohort: two runs of simulating_responses.py main, on  *)
(* the same seed, each in a process of its own: ambient[i] is the entropy  *)
(* the module random of process i was seeded with at import.               *)
(***************************************************************************)
\* the seeds the operating system hands a generator created without a seed
FreshSeeds == {0, 285, 570, 855}

\* the entropy an iteration uses: none unless its pattern creates a generator
Entropy(m) == IF CreatesGenerator(NextPattern(m)) THEN FreshSeeds ELSE {0}

\* an iteration of the first run
Generate ==
    /\ cohort.first.pc = "loop"
    /\ \E e \in Entropy(cohort.first) :
          cohort' = [cohort EXCEPT !.first = MainStep(cohort.first, e)]
    /\ UNCHANGED <<catalog, run, twin, ambient, jumps, job, rec, agg, mem>>

\* an iteration of the second run, started once the first has ended
GenerateAgain ==
    /\ cohort.first.pc = "done"
    /\ cohort.second.pc = "loop"
    /\ \E e \in Entropy(cohort.second) :
          cohort' = [cohort EXCEPT !.second = MainStep(cohort.second, e)]
    /\ UNCHANGED <<catalog, run, twin, ambient, jumps, job, rec, agg, mem>>

SIM_SEED == 42

InitCohort ==
    /\ catalog = Slice(1, 1)
    /\ run = Idle
    /\ twin = Idle
    /\ \E e \in 0..999, k \in 0..1 : ambient = <<e, (e + k) % 1000>>
    /\ jumps = 0
    /\ mem = NoMem
    /\ job = NoJob
    /\ rec = NoRec
    /\ agg = NoAgg
    /\ cohort = [first |-> NewMain(SIM_SEED, ambient[1]),
                 second |-> NewMain(SIM_SEED, ambient[2])]

NextCohort == Generate \/ GenerateAgain

SpecCohort == InitCohort /\ [][NextCohort]_vars

(***************************************************************************)
(* Properties of the evolution engine                                      *)
(***************************************************************************)
\* every value of the steps 2.. of call r, and of the step under construction
Produced(r) ==
    {r.all_attempts[k][q] : k \in 2..Len(r.all_attempts), q \in Keys(catalog)}
        \cup {r.nxt[q] : q \in DOMAIN r.nxt}

\* the values the rule of r's profile can give question qid from value p
Successors(r, qid, p) ==
    LET Out(d) == Rule(r.profile, p, NORM[qid], r.infected_targets, qid, d)
    IN  UNION {IF Out(<<d1, 2>>).n >= 2 THEN {Out(<<d1, d2>>).v : d2 \in U}
               ELSE {Out(<<d1, 2>>).v} : d1 \in U}

\* the value of question qid at step k (the norm where the baseline lacks it)
ValueAt(r, k, qid) == PrevVal(r.all_attempts[k], qid)

\* C1 as stated: for any profile label and any integer baseline, every value
\* produced at the steps 2..N lies in [1,5].
C1_ClampedAnyLabel == Produced(run) \subseteq 1..5

\* C1 amended: for each of the four known profile labels and any integer
\* baseline, and for any other label when the baseline values are in [1,5],
\* every value produced at the steps 2..N lies in [1,5].
C1_ClampedKnownLabel ==
    (\/ run.profile \in PROFILES
     \/ \A q \in DOMAIN run.baseline_answers : run.baseline_answers[q] \in 1..5)
        => Produced(run) \subseteq 1..5

C1_Witness ==
    /\ run.pc = "done"
    /\ run.profile \in PROFILES
    /\ run.attempts_total >= 3
    /\ \E q \in DOMAIN run.baseline_answers : run.baseline_answers[q] \notin 1..5

\* C2: two calls of evolve_answers on the same seed, profile, baseline and
\* step count return the same answer sequence, whatever else differs between
\* the two processes; the second call agrees with the first at every step.
C2_Deterministic ==
    (run.pc = "done" /\ twin.pc # "idle") =>
        /\ Len(twin.all_attempts) <= Len(run.all_attempts)
        /\ \A k \in 1..Len(twin.all_attempts) : twin.all_attempts[k] = run.all_attempts[k]
        /\ twin.pc = "done" => twin.all_attempts = run.all_attempts

C2_Witness ==
    /\ run.pc = "done"
    /\ twin.pc = "done"
    /\ ambient[1] # ambient[2]
    /\ run.profile = "Healthy-Lying"
    /\ Len(run.all_attempts) >= 3
    /\ run.all_attempts[2] # run.all_attempts[3]

\* C4: evolve_answers returns exactly attempts_total answer sets, the first
\* equal to the baseline, and at each step k > 1 every catalog question holds
\* a value its rule can give from the same question's value at step k - 1.
C4_Sequence ==
    run.pc = "done" =>
        /\ Len(run.all_attempts) = run.attempts_total
        /\ run.all_attempts[1] = run.baseline_answers
        /\ \A k \in 2..Len(run.all_attempts) : \A q \in Keys(catalog) :
              /\ q \in DOMAIN run.all_attempts[k]
              /\ run.all_attempts[k][q] \in Successors(run, q, ValueAt(run, k - 1, q))

C4_Witness ==
    /\ run.pc = "done"
    /\ Len(run.all_attempts) >= 3
    /\ run.all_attempts[2] # run.all_attempts[1]
    /\ run.all_attempts[3] # run.all_attempts[2]

\* the target table is complete and derived from the norms
TargetsDerived(r) ==
    /\ DOMAIN r.infected_targets = Keys(catalog)
    /\ \A q \in Keys(catalog) :
          /\ r.infected_targets[q] \in {1, 5}
          /\ NORM[q] >= 4 => r.infected_targets[q] = 1
          /\ NORM[q] <= 2 => r.infected_targets[q] = 5

\* every step taken so far moved each question by the Infected-Truthful rule
\* towards the target the table holds for it
TargetUsed(r) ==
    \A k \in 2..Len(r.all_attempts) : \A q \in Keys(catalog) :
        r.all_attempts[k][q] \in
            {infected_truthful_next(ValueAt(r, k - 1, q), r.infected_targets[q], d).v :
                d \in U \X U}

\* C5: for an Infected-Truthful call the target of every question is chosen
\* before the first transition (1 if norm >= 4, 5 if norm <= 2, 1 or 5 if
\* norm = 3), is in {1,5}, never changes afterwards, and is the target of
\* every step of the trajectory.
C5_TargetFixed ==
    [][(run'.profile = "Infected-Truthful" /\ run'.pc \in {"outer", "inner", "done"}) =>
          /\ TargetsDerived(run')
          /\ TargetUsed(run')
          /\ run.pc \in {"outer", "inner"} => run'.infected_targets = run.infected_targets]_vars

C5_Witness ==
    /\ run.pc = "done"
    /\ run.profile = "Infected-Truthful"
    /\ Len(run.all_attempts) >= 3
    /\ "q18" \in Keys(catalog)
    /\ run.infected_targets["q18"] = 1
    /\ run.all_attempts[3]["q18"] < ValueAt(run, 1, "q18")

Dist(a, b) == IF a >= b THEN a - b ELSE b - a

\* C6 as stated: with the stall and overshoot branches not taken, the value of
\* a question reaches its target and from then on is at the target at every
\* later step.
C6_ReachAndStay ==
    run.pc = "done" =>
        \A q \in Keys(catalog) :
            /\ \E k \in 1..Len(run.all_attempts) : ValueAt(run, k, q) = run.infected_targets[q]
            /\ \A k \in 1..(Len(run.all_attempts) - 1) :
                  ValueAt(run, k, q) = run.infected_targets[q]
                      => ValueAt(run, k + 1, q) = run.infected_targets[q]

\* C6 amended: with the stall and overshoot branches not taken, the value of a
\* question reaches its target within four transitions; from then on it is at
\* the target or, after an at-target jump, one unit away from it and back at
\* the target on the following step; with no at-target jump taken it is at the
\* target at every later step.
C6_ConvergesUpToJumps ==
    run.pc = "done" =>
        \A q \in Keys(catalog) :
            LET t == run.infected_targets[q]
                n == Len(run.all_attempts)
            IN  /\ \E k \in 1..5 : ValueAt(run, k, q) = t
                /\ \A k \in 1..(n - 1) :
                      ValueAt(run, k, q) = t => Dist(ValueAt(run, k + 1, q), t) <= 1
                /\ \A k \in 1..(n - 2) :
                      (ValueAt(run, k, q) = t /\ ValueAt(run, k + 1, q) # t)
                          => ValueAt(run, k + 2, q) = t
                /\ jumps = 0 =>
                      \A k \in 1..(n - 1) :
                          ValueAt(run, k, q) = t => ValueAt(run, k + 1, q) = t

C6_Witness ==
    /\ run.pc = "done"
    /\ Len(run.all_attempts) >= 20
    /\ \E q \in Keys(catalog) :
          /\ Dist(ValueAt(run, 1, q), run.infected_targets[q]) = 4
          /\ ValueAt(run, 5, q) = run.infected_targets[q]
          /\ \E k \in 6..19 :
                /\ ValueAt(run, k, q) # run.infected_targets[q]
                /\ ValueAt(run, k + 1, q) = run.infected_targets[q]

(***************************************************************************)
(* Properties of longetude.py main                                         *)
(***************************************************************************)
\* the ids of the rows written so far
EmittedIds == {job.out_rows[j].id : j \in 1..Len(job.out_rows)}

\* the rows written for pid, in the order written
RowsOf(pid) == SelectSeq(job.out_rows, LAMBDA r : r.id = pid)

HasId(r, pid) == "id" \in DOMAIN r /\ r["id"].n = pid

\* the first input row of pid
FirstRowOf(pid) ==
    job.rows[CHOOSE i \in 1..Len(job.rows) :
                /\ HasId(job.rows[i], pid)
                /\ \A j \in 1..(i - 1) : ~HasId(job.rows[j], pid)]

\* C3: for any list of input rows, each id written has exactly one row per
\* time step, the time steps are 1..TOTAL_ATTEMPTS_PER_ID in increasing order,
\* the row of time step 1 carries the answers of the first input row of that
\* id, and all rows of the id carry the same profile label.
C3_Longitudinal ==
    \A pid \in EmittedIds :
        LET recs == RowsOf(pid)
            first == FirstRowOf(pid)
        IN  /\ Len(recs) = TOTAL_ATTEMPTS_PER_ID
            /\ \A j \in 1..Len(recs) :
                  /\ recs[j].questionnaire_version = j
                  /\ recs[j].name = recs[1].name
            /\ "answers" \in DOMAIN first => first["answers"].dict
            /\ recs[1].answers =
                  IF "answers" \in DOMAIN first THEN first["answers"].items ELSE EmptyDict

C3_Witness ==
    /\ job.pc = "written"
    /\ Cardinality(EmittedIds) = 2
    /\ \E i, j \in 1..Len(job.rows) :
          /\ i < j
          /\ "id" \in DOMAIN job.rows[i]
          /\ HasId(job.rows[j], job.rows[i]["id"].n)
          /\ job.rows[i]["id"] # job.rows[j]["id"]
          /\ "answers" \in DOMAIN job.rows[i]
          /\ "answers" \in DOMAIN job.rows[j]
          /\ job.rows[i]["answers"] # job.rows[j]["answers"]

(***************************************************************************)
(* Properties of the scores and the flags                                  *)
(***************************************************************************)
\* the answer set without the entries whose key is no question id of the
\* catalog or whose value is no integer of [1,5]
KnownValidOnly(answers) ==
    [k \in {k \in DOMAIN answers :
                /\ k \in DOMAIN RA_NORM
                /\ answers[k].type \in {"int", "bool"}
                /\ answers[k].n \in 1..5} |-> answers[k]]

\* C7: an entry whose key is no question id of the catalog, or whose value is
\* outside [1,5], changes no component of the score vector.
C7_UnknownKeysIgnored ==
    rec.pc \in {"scored", "flagged"} => rec.scores = compute_scores(KnownValidOnly(rec.answers))

\* no entry of the answer set has an integer value in [1,5]
NoValidEntry(answers) ==
    \A k \in DOMAIN answers :
        answers[k].type \notin {"int", "bool"} \/ answers[k].n < 1 \/ answers[k].n > 5

\* C8: an answer set with no valid entry has health_score, extreme_score,
\* lie_score and entropy all NaN, and neither flag is raised.
C8_NoValidEntryIsNaN ==
    (rec.pc \in {"scored", "flagged"} /\ NoValidEntry(rec.answers)) =>
        /\ rec.scores.health_score.nan
        /\ rec.scores.extreme_score.nan
        /\ rec.scores.lie_score.nan
        /\ rec.scores.entropy.nan
        /\ rec.pc = "flagged" => (~rec.flag_sick /\ ~rec.flag_lying)

C8_Witness ==
    /\ rec.pc = "flagged"
    /\ NoValidEntry(rec.answers)
    /\ \E k \in DOMAIN rec.answers : k \in DOMAIN RA_NORM /\ rec.answers[k] = PyInt(0)
    /\ \E k \in DOMAIN rec.answers : k \in DOMAIN RA_NORM /\ rec.answers[k] = PyStr
    /\ \E k \in DOMAIN rec.answers : k \notin DOMAIN RA_NORM

\* x >= h/100, for a float x that is not NaN
AtLeast(x, h) == x.num * 100 >= h * x.den

C10_FlagSick ==
    rec.pc = "flagged" =>
        LET hs == rec.scores.health_score
            es == rec.scores.extreme_score
        IN  /\ (hs.nan \/ es.nan) => ~rec.flag_sick
            /\ (~hs.nan /\ ~es.nan) => (rec.flag_sick <=> (AtLeast(hs, 125) \/ AtLeast(es, 100)))

C10_Witness ==
    /\ rec.pc = "flagged"
    /\ ~rec.scores.health_score.nan
    /\ rec.scores.health_score.num * 4 = 5 * rec.scores.health_score.den
    /\ ~rec.scores.extreme_score.nan
    /\ ~AtLeast(rec.scores.extreme_score, 100)
    /\ rec.flag_sick

\* the catalog questions of the given kind that the answer set answers validly
ValidQs(answers, contradictory) ==
    {q \in DOMAIN answers \cap DOMAIN RA_NORM :
        /\ IS_CONTRADICTORY[q] = contradictory
        /\ answers[q].type \in {"int", "bool"}
        /\ answers[q].n \in 1..5}

RECURSIVE SetSum(_)
\* the sum of the values of a function of finite domain
SetSum(f) ==
    IF DOMAIN f = {} THEN 0
    ELSE LET x == CHOOSE x \in DOMAIN f : TRUE
         IN  f[x] + SetSum([y \in DOMAIN f \ {x} |-> f[y]])

\* the sum over the questions S of the absolute deviation from the norm
SumAbsDev(answers, S) == SetSum([q \in S |-> Abs(answers[q].n - RA_NORM[q])])

\* C11: lie_score is the mean absolute deviation from norm over the validly
\* answered contradictory questions minus that over the validly answered
\* non-contradictory questions, NaN when either subset is empty; a set that
\* deviates by 2 on every contradictory question and by 0 on every other has
\* lie_score = 2 and flag_lying true.
C11_LieScore ==
    rec.pc \in {"scored", "flagged"} =>
        LET c == ValidQs(rec.answers, TRUE)
            n == ValidQs(rec.answers, FALSE)
            nc == Cardinality(c)
            nn == Cardinality(n)
            ls == rec.scores.lie_score
        IN  /\ (c = {} \/ n = {}) => ls.nan
            /\ (c # {} /\ n # {}) =>
                  /\ ~ls.nan
                  /\ ls.num * (nc * nn) =
                        (SumAbsDev(rec.answers, c) * nn - SumAbsDev(rec.answers, n) * nc) * ls.den
                  /\ ((\A q \in c : Abs(rec.answers[q].n - RA_NORM[q]) = 2)
                        /\ (\A q \in n : rec.answers[q].n = RA_NORM[q])) =>
                        /\ ls = Float(2, 1)
                        /\ rec.pc = "flagged" => rec.flag_lying

C11_Witness ==
    /\ rec.pc = "flagged"
    /\ DOMAIN rec.answers = DOMAIN RA_NORM
    /\ \A q \in DOMAIN RA_NORM :
          Abs(rec.answers[q].n - RA_NORM[q]) = IF IS_CONTRADICTORY[q] THEN 2 ELSE 0
    /\ rec.scores.lie_score = Float(2, 1)
    /\ rec.flag_lying

\* the direction-aware deviation of answer v to a question of the given norm
DirectionDev(norm, v) ==
    IF norm >= 4 THEN (IF norm - v > 0 THEN norm - v ELSE 0)
    ELSE IF norm <= 2 THEN (IF v - norm > 0 THEN v - norm ELSE 0)
    ELSE (IF v >= 3 THEN v - 3 ELSE 3 - v)

\* C12: extreme_score is the mean over the validly answered catalog questions
\* of the direction-aware deviation; norm = 2, answer = 2 contributes 0, norm =
\* 5, answer = 1 contributes 4, an answer on the healthy side of the norm 0.
C12_ExtremeScore ==
    rec.pc \in {"scored", "flagged"} =>
        LET S == ValidQs(rec.answers, TRUE) \cup ValidQs(rec.answers, FALSE)
            es == rec.scores.extreme_score
        IN  /\ S = {} => es.nan
            /\ S # {} =>
                  /\ ~es.nan
                  /\ es.num * Cardinality(S) =
                        SetSum([q \in S |-> DirectionDev(RA_NORM[q], rec.answers[q].n)]) * es.den
            /\ (S = {"q1"} /\ rec.answers["q1"].n <= 2) => es = Float(0, 1)
            /\ (S = {"q3"} /\ rec.answers["q3"].n = 1) => es = Float(4, 1)

C12_Witness ==
    /\ rec.pc = "scored"
    /\ DOMAIN rec.answers = {"q1", "q3", "q18"}
    /\ rec.answers["q1"] = PyInt(1)
    /\ rec.answers["q3"] = PyInt(1)
    /\ rec.answers["q18"] = PyInt(5)
    /\ rec.scores.extreme_score = Float(2, 1)

(***************************************************************************)
(* Properties of the unknown-profile fallback                              *)
(***************************************************************************)
\* what a caller can observe of a finished call: the list returned (a call
\* raises nothing, writes nothing and returns nothing else)
Observed(r) == r.all_attempts

\* C13: a call that took the unknown-profile fallback is distinguishable, in
\* what it returns or signals, from a call with a known profile.
C13_FallbackReported ==
    (/\ run.pc = "done" /\ twin.pc = "done"
     /\ run.profile \notin PROFILES /\ twin.profile \in PROFILES
     /\ run.attempts_total >= 2)
        => Observed(run) # Observed(twin)

(***************************************************************************)
(* Properties of the transition rules                                      *)
(***************************************************************************)
\* x brought into [1,5]
Within15(x) == IF x < 1 THEN 1 ELSE IF x > 5 THEN 5 ELSE x

\* C16: in an Infected-Truthful call, for a previous value p in [1,5] and
\* target t: if p = t the next value is t or the value one unit away from t;
\* if p # t it is p, p moved one unit towards t, or p moved two units towards
\* t and clamped, so it never moves away from t and never passes it.
C16_InfectedTruthfulRelation ==
    (run.profile = "Infected-Truthful" /\ run.pc \in {"outer", "inner", "done"}) =>
        \A k \in 2..Len(run.all_attempts) : \A q \in Keys(catalog) :
            LET p == ValueAt(run, k - 1, q)
                t == run.infected_targets[q]
                v == run.all_attempts[k][q]
                toward == IF t > p THEN 1 ELSE -1
            IN  p \in 1..5 =>
                    /\ t \in {1, 5}
                    /\ p = t => v \in {t, IF t = 5 THEN 4 ELSE 2}
                    /\ p # t =>
                          /\ v \in {p, p + toward, Within15(p + 2 * toward)}
                          /\ Dist(v, t) <= Dist(p, t)
                          /\ (IF t = 5 THEN v <= 5 ELSE v >= 1)

C16_Witness ==
    /\ run.pc = "done"
    /\ run.profile = "Infected-Truthful"
    /\ Len(run.all_attempts) >= 3
    /\ \E q \in Keys(catalog) :
          /\ ValueAt(run, 1, q) = 3
          /\ run.all_attempts[2][q] = run.infected_targets[q]
          /\ Dist(run.all_attempts[3][q], run.infected_targets[q]) = 1

\* C17: in a Healthy-Truthful call, for a previous value p in [1,5] and norm
\* n, the next value is the stepped value c = clamp(p + d), d in {-1,0,1}, or,
\* only when c # n, c moved one unit towards n; it is in [1,5], differs from
\* p by at most 2 and is no farther from n than |p - n| + 1.
C17_HealthyTruthfulRelation ==
    (run.profile = "Healthy-Truthful" /\ run.pc \in {"outer", "inner", "done"}) =>
        \A k \in 2..Len(run.all_attempts) : \A q \in Keys(catalog) :
            LET p == ValueAt(run, k - 1, q)
                n == NORM[q]
                v == run.all_attempts[k][q]
            IN  p \in 1..5 =>
                    /\ v \in 1..5
                    /\ Dist(v, p) <= 2
                    /\ Dist(v, n) <= Dist(p, n) + 1
                    /\ \E d \in {-1, 0, 1} :
                          LET c == Within15(p + d)
                          IN  \/ v = c
                              \/ c # n /\ v = c + (IF n > c THEN 1 ELSE -1)

C17_Witness ==
    /\ run.pc = "done"
    /\ run.profile = "Healthy-Truthful"
    /\ Len(run.all_attempts) >= 3
    /\ \E q \in Keys(catalog) :
          /\ ValueAt(run, 1, q) \in 1..5
          /\ Dist(run.all_attempts[2][q], ValueAt(run, 1, q)) = 2
          /\ Dist(run.all_attempts[3][q], NORM[q]) = Dist(run.all_attempts[2][q], NORM[q]) + 1

\* C18: with a label that is none of the four profiles the call does not
\* fail, draws nothing from the generator, and at every step k > 1 each
\* catalog question holds its value of step k - 1: the baseline value, or the
\* norm where the baseline lacks the question.
C18_FallbackCarries ==
    run.profile \notin PROFILES =>
        /\ run.rng.pos = 0
        /\ run.pc \in {"start", "outer", "inner", "done"}
        /\ run.pc = "done" => Len(run.all_attempts) = run.attempts_total
        /\ \A k \in 2..Len(run.all_attempts) : \A q \in Keys(catalog) :
              /\ q \in DOMAIN run.all_attempts[k]
              /\ run.all_attempts[k][q] = ValueAt(run, k - 1, q)
              /\ run.all_attempts[k][q] =
                    IF q \in DOMAIN run.baseline_answers THEN run.baseline_answers[q]
                    ELSE NORM[q]

C18_Witness ==
    /\ run.pc = "done"
    /\ run.profile \notin PROFILES
    /\ run.rng.seed # NoSeed
    /\ Len(run.all_attempts) >= 2
    /\ \E q1, q2 \in Keys(catalog) :
          /\ q1 \notin DOMAIN run.baseline_answers
          /\ q2 \in DOMAIN run.baseline_answers
          /\ run.baseline_answers[q2] # NORM[q2]
          /\ run.all_attempts[2][q1] = NORM[q1]
          /\ run.all_attempts[2][q2] = run.baseline_answers[q2]

\* C19: for a catalog question the baseline lacks, the first transition gives
\* a value its rule can give from the question's norm, and the answer set of
\* step 1 still omits the question.
C19_AbsentStartsAtNorm ==
    \A q \in Keys(catalog) \ DOMAIN run.baseline_answers :
        /\ Len(run.all_attempts) >= 1 => q \notin DOMAIN run.all_attempts[1]
        /\ Len(run.all_attempts) >= 2 =>
              run.all_attempts[2][q] \in Successors(run, q, NORM[q])

C19_Witness ==
    /\ run.pc = "done"
    /\ run.profile = "Healthy-Lying"
    /\ Len(run.all_attempts) >= 2
    /\ \E q \in Keys(catalog) \ DOMAIN run.baseline_answers :
          /\ NORM[q] # 3
          /\ q \notin DOMAIN run.all_attempts[1]
          /\ Dist(run.all_attempts[2][q], NORM[q]) = 2

\* C20: for an answer set with at least one valid catalog answer,
\* 0 <= extreme_score <= health_score <= 4.
C20_ExtremeBelowHealth ==
    (/\ rec.pc \in {"scored", "flagged"}
     /\ ValidQs(rec.answers, TRUE) \cup ValidQs(rec.answers, FALSE) # {}) =>
        LET hs == rec.scores.health_score
            es == rec.scores.extreme_score
        IN  /\ ~hs.nan /\ ~es.nan
            /\ hs.den > 0 /\ es.den > 0
            /\ 0 <= es.num
            /\ es.num * hs.den <= hs.num * es.den
            /\ hs.num <= 4 * hs.den

C20_Witness ==
    /\ rec.pc = "scored"
    /\ Cardinality(ValidQs(rec.answers, TRUE) \cup ValidQs(rec.answers, FALSE)) >= 3
    /\ ~rec.scores.extreme_score.nan
    /\ ~rec.scores.health_score.nan
    /\ rec.scores.extreme_score.num > 0
    /\ rec.scores.extreme_score.num * rec.scores.health_score.den
          < rec.scores.health_score.num * rec.scores.extreme_score.den

(***************************************************************************)
(* Properties of the aggregation                                           *)
(***************************************************************************)
\* the positions of the group that hold a number
Numbers(values) == {i \in 1..Len(values) : ~values[i].nan}

\* the float x in quarters (the floats of a group are whole quarters)
Quarters(x) == (4 * x.num) \div x.den

\* C15: mean_std leaves the NaN values out of the count and of the reduction:
\* no number in the group gives (NaN, NaN); exactly one number v gives
\* (v, 0.0) however many NaN values come with it; two or more numbers give
\* their mean and their sample standard deviation.
C15_MeanStd ==
    agg.pc = "reduced" =>
        LET I == Numbers(agg.values)
            c == Cardinality(I)
            s1 == SetSum([i \in I |-> Quarters(agg.values[i])])
            s2 == SetSum([i \in I |-> Quarters(agg.values[i]) * Quarters(agg.values[i])])
            m == agg.result[1]
            sd == agg.result[2]
        IN  /\ c = 0 => (m.nan /\ sd.nan)
            /\ c = 1 => /\ \E i \in I : m = agg.values[i]
                        /\ sd = Root(Float(0, 1), 1)
            /\ c >= 2 =>
                  /\ ~m.nan /\ ~sd.nan
                  /\ m.num * (4 * c) = s1 * m.den
                  /\ sd.num >= 0 /\ sd.den > 0
                  /\ IF sd.root = 1
                     THEN sd.num * sd.num * (16 * c * (c - 1)) = (c * s2 - s1 * s1) * sd.den * sd.den
                     ELSE sd.num * (16 * c * (c - 1)) = (c * s2 - s1 * s1) * sd.den

C15_Witness ==
    /\ agg.pc = "reduced"
    /\ Cardinality(Numbers(agg.values)) = 2
    /\ Len(agg.values) = 3
    /\ agg.values[2].nan
    /\ agg.result[1] = Float(5, 8)
    /\ agg.result[2].root = 2

(***************************************************************************)
(* Properties of the cohort generator                                      *)
(***************************************************************************)
\* C14: two runs of the cohort generator started with the same seed write the
\* same sequence of records (ids, profiles and answers).
C14_CohortDeterministic ==
    (/\ cohort.first.pc = "done" /\ cohort.second.pc = "done"
     /\ cohort.first.rng.seed = cohort.second.rng.seed)
        => cohort.first.records = cohort.second.records

(***************************************************************************)
(* Properties of the dict objects of a call                                *)
(***************************************************************************)
\* the answer set of step 1 has the keys of the baseline; every answer set of
\* a step k >= 2 has the catalog's question ids as its keys
KeysByStep(m) ==
    \A k \in 1..Len(m.all_attempts) :
        DOMAIN m.objs[m.all_attempts[k]] =
            IF k = 1 THEN DOMAIN m.objs[m.baseline_answers] ELSE Keys(catalog)

\* the step from m to n leaves the caller's mapping and every answer set
\* emitted so far as they were, each in the place it had
Untouched(m, n) ==
    /\ n.baseline_answers = m.baseline_answers
    /\ n.objs[m.baseline_answers] = m.objs[m.baseline_answers]
    /\ Len(n.all_attempts) >= Len(m.all_attempts)
    /\ \A i \in 1..Len(m.all_attempts) :
          /\ n.all_attempts[i] = m.all_attempts[i]
          /\ n.objs[m.all_attempts[i]] = m.objs[m.all_attempts[i]]

\* C21: every answer set emitted at a step k >= 2 has exactly the catalog's
\* question ids (24 of them for the whole catalog) as its keys, whatever keys
\* the baseline had: a baseline key outside the catalog is in the set of step 1
\* only, a catalog key the baseline lacks is filled in; and no step modifies
\* the caller's baseline mapping or an answer set emitted before it.
C21_KeysAndNoMutation ==
    /\ [](/\ Cardinality(DOMAIN NORM) = 24
          /\ Keys(catalog) \subseteq DOMAIN NORM
          /\ KeysByStep(mem)
          /\ Returned(mem) = run.all_attempts)
    /\ [][Untouched(mem, mem')]_vars

C21_Witness ==
    /\ run.pc = "done"
    /\ Keys(catalog) = DOMAIN NORM
    /\ run.profile = "Infected-Truthful"
    /\ Len(mem.all_attempts) = 3
    /\ ExtraKeys \subseteq DOMAIN mem.objs[mem.baseline_answers]
    /\ Keys(Slice(13, 24)) \cap DOMAIN mem.objs[mem.baseline_answers] = {}
    /\ DOMAIN mem.objs[mem.all_attempts[1]] = DOMAIN mem.objs[mem.baseline_answers]
    /\ Cardinality(DOMAIN mem.objs[mem.all_attempts[3]]) = 24
    /\ mem.objs[mem.all_attempts[2]] # mem.objs[mem.all_attempts[3]]
    /\ Cardinality({mem.baseline_answers} \cup
                   {mem.all_attempts[i] : i \in 1..3}) = 4

====
